---- MODULE Spec2Model ----
(***************************************************************************)
(* A model of the back-testing kernel: Portfolio (portfolio.py), Broker    *)
(* (broker.py) and BacktesterEngine (engine.py).                           *)
(*                                                                         *)
(* Numbers.  Python floats are modelled as exact numbers: money amounts    *)
(* and prices are rationals [n, d] in lowest terms, sizes are integers     *)
(* counted in units of 5e-11, so that the ledger's threshold 1e-10 is 2    *)
(* units and the engine's threshold 1e-8 is 200 units.  Floating-point     *)
(* rounding is not modelled.                                               *)
(*                                                                         *)
(* Records.  Order, Fill and Candle carry the fields that broker.py,       *)
(* engine.py and portfolio.py construct and read (id, size, order_id,      *)
(* fill_id, ...); the dataclasses declared in models.py name other fields  *)
(* (quantity, no id) and are not what these call sites use.                *)
(***************************************************************************)
EXTENDS Integers, Sequences, FiniteSets, TLC

VARIABLES
    cash,            \* Portfolio.cash
    positions,       \* Portfolio.positions: Position records in dict insertion order
    history,         \* Portfolio.history: snapshots
    fills,           \* Broker.fills: the execution log
    fee_rate,        \* Broker.fee_rate
    slippage_pct,    \* Broker.slippage_pct
    wall,            \* the wall clock datetime.utcnow() reads
    clock_step,      \* how far the wall clock moves between two readings
    apply_calls,     \* number of Portfolio.apply_fill calls made so far
    requests,        \* the Broker.submit_order calls made with an order, in call
                     \* order: the order and the market_prices it came with
    trail,           \* the latest two apply_fill calls, oldest first: the fill and
                     \* the ledger [cash, positions] as it was before the call
    notional,        \* sum over the applied fills of signed size * price
    fees_paid,       \* sum over the applied fills of fee
    net,             \* symbol -> sum over the applied fills of signed size (kept
                     \* by SpecTally)
    dust,            \* what the 1e-10 thresholds of apply_fill have left out of
                     \* the positions so far: [size: symbol -> summed size,
                     \* value: that size priced at the price it was left out at]
    got,             \* the latest Portfolio.get_position call made since the last
                     \* apply_fill: its symbol and what it returned, or None
    data,            \* BacktesterEngine.data: symbol -> rows [timestamp, close]
    pc,              \* where run_backtest stands
    num_steps,       \* run_backtest's num_steps
    current_index,   \* BacktesterEngine.current_index (idx)
    sym_i,           \* index into self.symbols of the symbol loop
    strat_i,         \* index into self.strategies of the strategy loop
    market_prices,   \* run_backtest's step-local market_prices
    calls,           \* the strategy hooks called so far, in call order
    orders_emitted,  \* number of orders the strategies have returned
    replay           \* a second run on the same inputs and the same strategy
                     \* decisions, with its own clock readings and random draws:
                     \* [on, b, history]; [on |-> FALSE] when only one run is made

ledgerVars == <<cash, positions, history, apply_calls, trail, notional, fees_paid,
                net, dust, got>>
brokerVars == <<fills, fee_rate, slippage_pct, wall, clock_step, requests>>
engineVars == <<data, pc, num_steps, current_index, sym_i, strat_i, market_prices,
                calls, orders_emitted, replay>>
allVars == <<ledgerVars, brokerVars, engineVars>>

-----------------------------------------------------------------------------
(* Exact rational arithmetic standing in for float arithmetic.             *)

Abs(x) == IF x < 0 THEN -x ELSE x

Min(a, b) == IF a <= b THEN a ELSE b

\* The element of a one-element set.  Only({e(x) : x \in {v}}) is e(v) with v
\* evaluated once: the model's way to name an intermediate result.
Only(S) == CHOOSE y \in S : TRUE

RECURSIVE GCD(_, _)
GCD(a, b) == IF b = 0 THEN a ELSE Only({GCD(b, r) : r \in {a % b}})

Norm(n, d) ==
    Only({ Only({ [n |-> x \div g, d |-> y \div g] : g \in {GCD(Abs(x), y)} }) :
           x \in {n}, y \in {d} })

R(n, d) == Norm(n, d)
RInt(k) == [n |-> k, d |-> 1]
Zero == RInt(0)
RNeg(a) == Only({ [n |-> -x.n, d |-> x.d] : x \in {a} })
RAdd(a, b) ==
    Only({ Only({ Norm(x.n * (y.d \div g) + y.n * (x.d \div g), (x.d \div g) * y.d) :
                  g \in {GCD(x.d, y.d)} }) :
           x \in {a}, y \in {b} })
RSub(a, b) == RAdd(a, RNeg(b))
RMul(a, b) ==
    Only({ Only({ Norm((x.n \div g1) * (y.n \div g2), (x.d \div g2) * (y.d \div g1)) :
                  g1 \in {GCD(Abs(x.n), y.d)}, g2 \in {GCD(Abs(y.n), x.d)} }) :
           x \in {a}, y \in {b} })
RScale(k, a) == RMul(RInt(k), a)
RDivInt(a, k) == Only({ Norm(x.n, x.d * k) : x \in {a} })
RLt(a, b) == Only({ x.n * y.d < y.n * x.d : x \in {a}, y \in {b} })

-----------------------------------------------------------------------------
(* Program constants and the inputs the model enumerates.                  *)

EPS == 2
CLOSE_EPS == 200

Symbols == <<"BTC", "ETH">>
SymbolSet == {Symbols[i] : i \in 1..Len(Symbols)}

InitialCash == RInt(10000)
MarkPrices == {RInt(10), RInt(20)}

None == [kind |-> "None"]
NoNet == [s \in SymbolSet |-> 0]
NoDust == [size |-> [s \in SymbolSet |-> 0], value |-> Zero]

-----------------------------------------------------------------------------
(* portfolio.py                                                            *)

Position(symbol) ==
    [symbol |-> symbol, size |-> 0, avg_price |-> Zero, realized_pnl |-> Zero]

HasPosition(ps, symbol) == \E i \in 1..Len(ps) : ps[i].symbol = symbol

PosIndex(ps, symbol) == CHOOSE i \in 1..Len(ps) : ps[i].symbol = symbol

\* Portfolio.get_position: the live position, or a zero position that is not stored.
get_position(ps, symbol) ==
    IF HasPosition(ps, symbol) THEN ps[PosIndex(ps, symbol)] ELSE Position(symbol)

\* get_position as it would be with a dict that inserts the default on a miss
\* (setdefault): the ledger gains a zero position for the symbol.
Portfolio_get_position_inserting(pf, symbol) ==
    [pf |-> IF HasPosition(pf.positions, symbol) THEN pf
            ELSE [pf EXCEPT !.positions = Append(pf.positions, Position(symbol))],
     result |-> get_position(pf.positions, symbol)]

\* Portfolio.get_position as a call on pf = [cash, positions, history]: the
\* portfolio after the call and the position returned.
Portfolio_get_position(pf, symbol) ==
    [pf |-> pf, result |-> get_position(pf.positions, symbol)]

signed_size_of(fill) == IF fill.is_buy THEN fill.size ELSE -fill.size

\* close_segment with the realized PnL taken as if every position were long.
close_segment_long_only(pos, signed_size, price) ==
    IF pos.size * signed_size < 0
    THEN LET closed_size == Min(Abs(pos.size), Abs(signed_size))
             pnl == RScale(closed_size, RSub(price, pos.avg_price))
             size1 == IF pos.size > 0 THEN pos.size - closed_size
                                      ELSE pos.size + closed_size
             rest == IF signed_size > 0 THEN signed_size - closed_size
                                        ELSE signed_size + closed_size
             pos1 == [pos EXCEPT !.realized_pnl = RAdd(pos.realized_pnl, pnl),
                                 !.size = size1]
         IN  [pos |-> IF Abs(size1) < EPS
                      THEN [pos1 EXCEPT !.size = 0, !.avg_price = Zero]
                      ELSE pos1,
              rest |-> rest]
    ELSE [pos |-> pos, rest |-> signed_size]

\* close_segment as it would be if the closed size realized no PnL.
close_segment_without_pnl(pos, signed_size, price) ==
    IF pos.size * signed_size < 0
    THEN LET closed_size == Min(Abs(pos.size), Abs(signed_size))
             size1 == IF pos.size > 0 THEN pos.size - closed_size
                                      ELSE pos.size + closed_size
             rest == IF signed_size > 0 THEN signed_size - closed_size
                                        ELSE signed_size + closed_size
             pos1 == [pos EXCEPT !.size = size1]
         IN  [pos |-> IF Abs(size1) < EPS
                      THEN [pos1 EXCEPT !.size = 0, !.avg_price = Zero]
                      ELSE pos1,
              rest |-> rest]
    ELSE [pos |-> pos, rest |-> signed_size]

\* apply_fill, lines 42-59: the closing segment of a reducing or flipping trade.
\* Returns the position and what is left of the trade's signed size.
close_segment(pos, signed_size, price) ==
    IF pos.size * signed_size < 0
    THEN LET closed_size == Min(Abs(pos.size), Abs(signed_size))
             pnl == RScale(closed_size * (IF pos.size > 0 THEN 1 ELSE -1),
                           RSub(price, pos.avg_price))
             size1 == IF pos.size > 0 THEN pos.size - closed_size
                                      ELSE pos.size + closed_size
             rest == IF signed_size > 0 THEN signed_size - closed_size
                                        ELSE signed_size + closed_size
             pos1 == [pos EXCEPT !.realized_pnl = RAdd(pos.realized_pnl, pnl),
                                 !.size = size1]
         IN  [pos |-> IF Abs(size1) < EPS
                      THEN [pos1 EXCEPT !.size = 0, !.avg_price = Zero]
                      ELSE pos1,
              rest |-> rest]
    ELSE [pos |-> pos, rest |-> signed_size]

\* open_segment averaging the two prices without weighting them by size.
open_segment_unweighted(pos, signed_size, price) ==
    IF Abs(signed_size) > EPS
    THEN IF pos.size = 0
         THEN [pos EXCEPT !.size = signed_size, !.avg_price = price]
         ELSE [pos EXCEPT !.size = pos.size + signed_size,
                          !.avg_price = RDivInt(RAdd(pos.avg_price, price), 2)]
    ELSE pos

\* apply_fill, lines 62-72: open a position or add to one with what is left.
open_segment(pos, signed_size, price) ==
    IF Abs(signed_size) > EPS
    THEN IF pos.size = 0
         THEN [pos EXCEPT !.size = signed_size, !.avg_price = price]
         ELSE LET total_cost == RAdd(RScale(Abs(pos.size), pos.avg_price),
                                     RScale(Abs(signed_size), price))
                  size1 == pos.size + signed_size
              IN  [pos EXCEPT !.size = size1,
                              !.avg_price = IF size1 # 0
                                            THEN RDivInt(total_cost, Abs(size1))
                                            ELSE Zero]
    ELSE pos

\* epsilon_cleanup as it would be if a size of exactly 1e-10 were dust too.
epsilon_cleanup_at_most(pos) ==
    IF Abs(pos.size) <= EPS THEN [pos EXCEPT !.size = 0, !.avg_price = Zero] ELSE pos

\* apply_fill, lines 75-77: the final epsilon cleanup.
epsilon_cleanup(pos) ==
    IF Abs(pos.size) < EPS THEN [pos EXCEPT !.size = 0, !.avg_price = Zero] ELSE pos

\* cash_change computed from the unsigned size: a sell is charged like a buy.
cash_change_unsigned(fill) ==
    RSub(RNeg(RScale(fill.size, fill.price)), fill.fee)

\* cash_change that forgets the fee.
cash_change_no_fee(fill) ==
    RNeg(RScale(signed_size_of(fill), fill.price))

\* apply_fill, line 80: the cash change uses the original signed size.
cash_change(fill) ==
    RSub(RNeg(RScale(signed_size_of(fill), fill.price)), fill.fee)

\* apply_fill as it would be without any epsilon handling: the closing segment
\* leaves avg_price alone and there is no final cleanup.
apply_fill_without_epsilon(pf, fill) ==
    LET ps == IF HasPosition(pf.positions, fill.symbol)
              THEN pf.positions
              ELSE Append(pf.positions, Position(fill.symbol))
        i == PosIndex(ps, fill.symbol)
        old == ps[i]
        s0 == signed_size_of(fill)
        closing == old.size * s0 < 0
        closed_size == Min(Abs(old.size), Abs(s0))
        pos1 == IF closing
                THEN [old EXCEPT
                        !.realized_pnl = RAdd(old.realized_pnl,
                            RScale(closed_size * (IF old.size > 0 THEN 1 ELSE -1),
                                   RSub(fill.price, old.avg_price))),
                        !.size = IF old.size > 0 THEN old.size - closed_size
                                                 ELSE old.size + closed_size]
                ELSE old
        rest == IF closing
                THEN (IF s0 > 0 THEN s0 - closed_size ELSE s0 + closed_size)
                ELSE s0
    IN  [cash |-> RAdd(pf.cash, cash_change(fill)),
         positions |-> [ps EXCEPT ![i] = open_segment(pos1, rest, fill.price)]]

\* Portfolio.apply_fill on the ledger value pf = [cash, positions].
apply_fill(pf, fill) ==
    LET ps == IF HasPosition(pf.positions, fill.symbol)
              THEN pf.positions
              ELSE Append(pf.positions, Position(fill.symbol))
        i == PosIndex(ps, fill.symbol)
    IN  Only({ Only({ [cash |-> RAdd(pf.cash, cash_change(fill)),
                       positions |-> [ps EXCEPT ![i] = epsilon_cleanup(opened)]] :
                      opened \in {open_segment(closed.pos, closed.rest, fill.price)} }) :
               closed \in {close_segment(ps[i], signed_size_of(fill), fill.price)} })

\* Portfolio.equity: cash plus size * mark, the mark falling back to avg_price.
RECURSIVE equity_sum(_, _, _)
equity_sum(ps, prices, k) ==
    IF k = 0 THEN Zero
    ELSE LET p == ps[k]
             mark == IF p.symbol \in DOMAIN prices THEN prices[p.symbol] ELSE p.avg_price
         IN  RAdd(equity_sum(ps, prices, k - 1), RScale(p.size, mark))

equity(pf, prices) ==
    RAdd(pf.cash, equity_sum(pf.positions, prices, Len(pf.positions)))

\* Portfolio.record_snapshot: the snapshot appended to the history.
snapshot_of(pf, timestamp, prices) ==
    [timestamp |-> timestamp, cash |-> pf.cash,
     equity |-> equity(pf, prices), positions |-> pf.positions, live |-> FALSE]

\* The positions a reader of a snapshot finds, given the ledger's positions
\* now: the snapshot's own copies, or, had the snapshot kept the ledger's
\* Position objects instead of copies, those objects as they are now.
positions_seen(snap, ps) == IF snap.live THEN ps ELSE snap.positions

\* record_snapshot as it would be with positions=self.positions: the snapshot
\* holds the ledger's own dict and Position objects.
record_snapshot_sharing(pf, timestamp, prices) ==
    [pf EXCEPT !.history =
        Append(pf.history,
               [snapshot_of(pf, timestamp, prices) EXCEPT !.live = TRUE])]

\* record_snapshot as it would be if it kept only the latest snapshot.
record_snapshot_replacing(pf, timestamp, prices) ==
    [pf EXCEPT !.history = <<snapshot_of(pf, timestamp, prices)>>]

\* Portfolio.equity as a call on pf = [cash, positions]: the portfolio after
\* the call and the value returned.
Portfolio_equity(pf, prices) == [pf |-> pf, result |-> equity(pf, prices)]

\* Portfolio.record_snapshot on pf = [cash, positions, history].
record_snapshot(pf, timestamp, prices) ==
    [pf EXCEPT !.history = Append(pf.history, snapshot_of(pf, timestamp, prices))]

-----------------------------------------------------------------------------
(* broker.py                                                               *)

\* The values random.uniform(-s, s) is sampled at: both ends of the range.
Uniform(s) == IF RLt(Zero, s) THEN {RNeg(s), s} ELSE {Zero}

\* execute_order as it would be if a priced order were filled at the order's
\* own price.
execute_order_at_order_price(order, prices, rate, u, t1, t2) ==
    IF order.symbol \notin DOMAIN prices
    THEN None
    ELSE LET executed_price == RMul(order.price, RAdd(RInt(1), u))
         IN  [kind |-> "Fill",
              order_id |-> order.id,
              fill_id |-> <<"FILL", t1, order.symbol>>,
              symbol |-> order.symbol,
              timestamp |-> t2,
              is_buy |-> order.is_buy,
              price |-> executed_price,
              size |-> order.size,
              fee |-> RMul(RScale(order.size, executed_price), rate),
              fee_currency |-> "USDT"]

\* execute_order as it would be if an order without a mark price were filled
\* at the order's own price.
execute_order_default_price(order, prices, rate, u, t1, t2) ==
    LET market_price == IF order.symbol \in DOMAIN prices
                        THEN prices[order.symbol] ELSE order.price
        executed_price == RMul(market_price, RAdd(RInt(1), u))
    IN  [kind |-> "Fill",
         order_id |-> order.id,
         fill_id |-> <<"FILL", t1, order.symbol>>,
         symbol |-> order.symbol,
         timestamp |-> t2,
         is_buy |-> order.is_buy,
         price |-> executed_price,
         size |-> order.size,
         fee |-> RMul(RScale(order.size, executed_price), rate),
         fee_currency |-> "USDT"]

\* Broker.execute_order.  u is the value random.uniform returned (Zero when
\* slippage_pct is 0 and nothing is drawn), t1 and t2 the two clock readings.
execute_order(order, prices, rate, u, t1, t2) ==
    IF order.symbol \notin DOMAIN prices
    THEN None
    ELSE LET market_price == prices[order.symbol]
             slippage_factor == RAdd(RInt(1), u)
             executed_price == RMul(market_price, slippage_factor)
             fee == RMul(RScale(order.size, executed_price), rate)
         IN  [kind |-> "Fill",
              order_id |-> order.id,
              fill_id |-> <<"FILL", t1, order.symbol>>,
              symbol |-> order.symbol,
              timestamp |-> t2,
              is_buy |-> order.is_buy,
              price |-> executed_price,
              size |-> order.size,
              fee |-> fee,
              fee_currency |-> "USDT"]

\* submit_order as it would be if a buy the cash cannot pay for were rejected.
submit_order_checking_cash(b, order, prices, rate, u, step) ==
    LET fill == IF order = None THEN None
                ELSE execute_order(order, prices, rate, u, b.wall, b.wall + step)
        logged == IF order = None THEN b
                  ELSE [b EXCEPT !.requests =
                          Append(b.requests, [order |-> order, prices |-> prices])]
    IN  IF fill = None
           \/ (fill.is_buy /\ RLt(b.cash, RAdd(RScale(fill.size, fill.price), fill.fee)))
        THEN [b |-> logged, fill |-> None]
        ELSE LET pf == apply_fill([cash |-> b.cash, positions |-> b.positions], fill)
             IN  [b |-> [logged EXCEPT !.fills = Append(b.fills, fill),
                                       !.cash = pf.cash,
                                       !.positions = pf.positions,
                                       !.apply_calls = b.apply_calls + 1,
                                       !.wall = b.wall + 2 * step],
                  fill |-> fill]

\* Broker.submit_order on the broker and ledger value
\* b = [fills, cash, positions, apply_calls, wall, requests]; returns the new
\* value and the fill.  u is the slippage draw; the clock is read twice, and only for an
\* order that is priced.
submit_order(b, order, prices, rate, u, step) ==
    IF order = None
    THEN [b |-> b, fill |-> None]
    ELSE Only({ IF fill # None
                THEN Only({ [b |-> [fills |-> Append(b.fills, fill),
                                    cash |-> pf.cash,
                                    positions |-> pf.positions,
                                    apply_calls |-> b.apply_calls + 1,
                                    wall |-> b.wall + 2 * step,
                                    requests |-> Append(b.requests,
                                        [order |-> order, prices |-> prices])],
                             fill |-> fill] :
                            pf \in {apply_fill([cash |-> b.cash,
                                                positions |-> b.positions], fill)} })
                ELSE [b |-> [b EXCEPT !.requests =
                                Append(b.requests, [order |-> order, prices |-> prices])],
                      fill |-> None] :
                fill \in {execute_order(order, prices, rate, u, b.wall, b.wall + step)} })

BrokerState == [fills |-> fills, cash |-> cash, positions |-> positions,
                apply_calls |-> apply_calls, wall |-> wall, requests |-> requests]

-----------------------------------------------------------------------------
(* engine.py                                                               *)

Strategies == <<"S1", "S2">>
Uuids == {"u1", "u2"}

\* A strategy hook call: which hook, on which strategy, and how many trades
\* were logged and applied to the ledger when it was called.
Call(hook, strategy, idx, symbol, b) ==
    [hook |-> hook, strategy |-> strategy, step |-> idx, symbol |-> symbol,
     n_fills |-> Len(b.fills), n_applied |-> b.apply_calls]

\* The number of steps as it would be if the longest series set it.
RECURSIVE max_len(_, _)
max_len(d, syms) ==
    IF syms = {} THEN 0
    ELSE LET s == CHOOSE x \in syms : TRUE
             rest == max_len(d, syms \ {s})
         IN  IF Len(d[s]) > rest THEN Len(d[s]) ELSE rest

\* run_backtest, line 41: the number of steps.
RECURSIVE min_len(_, _)
min_len(d, syms) ==
    IF syms = {} THEN 0
    ELSE LET s == CHOOSE x \in syms : TRUE
             rest == syms \ {s}
         IN  IF rest = {} THEN Len(d[s]) ELSE Min(Len(d[s]), min_len(d, rest))

\* _close_all_positions, lines 107-110: every strategy's on_fill for one trade.
RECURSIVE notify_all(_, _, _, _, _)
notify_all(log, k, idx, symbol, b) ==
    IF k > Len(Strategies) THEN log
    ELSE notify_all(Append(log, Call("on_fill", Strategies[k], idx, symbol, b)),
                    k + 1, idx, symbol, b)

\* A strategy's turn as it would be if every strategy were told of the fill.
dispatch_notifying_all(b, log, strategy, idx, symbol, order, prices, rate, u, step) ==
    LET log1 == Append(log, Call("on_candle", strategy, idx, symbol, b))
    IN  IF order # None
        THEN Only({ IF r.fill # None
                    THEN [b |-> r.b,
                          calls |-> notify_all(log1, 1, idx, r.fill.symbol, r.b)]
                    ELSE [b |-> r.b, calls |-> log1] :
                    r \in {submit_order(b, order, prices, rate, u, step)} })
        ELSE [b |-> b, calls |-> log1]

\* run_backtest, lines 62-67: one strategy's turn on a candle.  order is what
\* on_candle returned (None for no order).
dispatch(b, log, strategy, idx, symbol, order, prices, rate, u, step) ==
    LET log1 == Append(log, Call("on_candle", strategy, idx, symbol, b))
    IN  IF order # None
        THEN Only({ IF r.fill # None
                    THEN [b |-> r.b,
                          calls |-> Append(log1, Call("on_fill", strategy, idx,
                                                      r.fill.symbol, r.b))]
                    ELSE [b |-> r.b, calls |-> log1] :
                    r \in {submit_order(b, order, prices, rate, u, step)} })
        ELSE [b |-> b, calls |-> log1]

\* _close_all_positions, lines 93-103: the closing order for a position.
closing_order(position, prices, uuid) ==
    [id |-> <<"CLOSE", uuid>>,
     symbol |-> position.symbol,
     is_buy |-> position.size < 0,
     price |-> IF position.symbol \in DOMAIN prices
               THEN prices[position.symbol] ELSE position.avg_price,
     size |-> Abs(position.size)]

\* _close_all_positions, lines 112-114: the clamp of a position within 1e-8.
clamp(position) ==
    IF Abs(position.size) < CLOSE_EPS
    THEN [position EXCEPT !.size = 0, !.avg_price = Zero]
    ELSE position

\* _close_all_positions from the k-th position of the dict on.  draws[k] holds
\* the uuid4 and the slippage draw of the k-th position's closing order.
RECURSIVE close_from(_, _, _, _, _, _, _, _)
close_from(k, b, log, idx, prices, rate, draws, step) ==
    IF k > Len(b.positions) THEN [b |-> b, calls |-> log]
    ELSE LET position == b.positions[k]
         IN  Only({ Only({ close_from(k + 1, next.b, next.calls, idx, prices, rate,
                                      draws, step) :
                           next \in {[b |-> [r.b EXCEPT !.positions[k] =
                                                     clamp(r.b.positions[k])],
                                      calls |-> IF r.fill # None
                                                THEN notify_all(log, 1, idx,
                                                                position.symbol, r.b)
                                                ELSE log]} }) :
                    r \in {IF Abs(position.size) > CLOSE_EPS
                           THEN submit_order(b, closing_order(position, prices,
                                                              draws[k].uuid),
                                             prices, rate, draws[k].u, step)
                           ELSE [b |-> b, fill |-> None]} })

_close_all_positions(b, log, idx, prices, rate, draws, step) ==
    close_from(1, b, log, idx, prices, rate, draws, step)

\* The on_end hooks as they would be called from the last strategy to the
\* first.
RECURSIVE end_hooks_last_first(_, _, _, _)
end_hooks_last_first(log, k, idx, b) ==
    IF k > Len(Strategies) THEN log
    ELSE end_hooks_last_first(
             Append(log, Call("on_end", Strategies[Len(Strategies) + 1 - k], idx, "", b)),
             k + 1, idx, b)

\* run_backtest, lines 79-82: the on_end hooks.
RECURSIVE end_hooks(_, _, _, _)
end_hooks(log, k, idx, b) ==
    IF k > Len(Strategies) THEN log
    ELSE end_hooks(Append(log, Call("on_end", Strategies[k], idx, "", b)), k + 1, idx, b)

-----------------------------------------------------------------------------
(* Spec: run_backtest over loaded data, with strategies that may return    *)
(* any order of a bounded set on any candle.                               *)

MaxOrders == 2

\* The wall-clock times a second run may start at: the first run's, or later.
ReplayStarts == {100}

NoReplay == [on |-> FALSE]

Row(t, c) == [timestamp |-> t, close |-> RInt(c)]

TwoSteps == [s \in SymbolSet |->
               IF s = "BTC" THEN <<Row(1, 10), Row(2, 20)>>
                            ELSE <<Row(1, 20), Row(2, 10)>>]
OneStep == [s \in SymbolSet |-> IF s = "BTC" THEN <<Row(1, 10)>> ELSE <<Row(1, 20)>>]
\* Series of different lengths; a registered symbol without a series; no
\* series at all.
Uneven == [s \in SymbolSet |->
             IF s = "BTC" THEN <<Row(1, 10), Row(2, 20)>> ELSE <<Row(1, 20)>>]
UnevenOther == [s \in SymbolSet |->
                  IF s = "BTC" THEN <<Row(1, 10)>> ELSE <<Row(1, 20), Row(2, 10)>>]
OnlyBTC == [s \in {"BTC"} |-> <<Row(1, 10)>>]
NoData == <<>>

Scenarios ==
    { [data |-> TwoSteps, fee_rate |-> R(1, 100), slippage_pct |-> Zero, clock_step |-> 1],
      [data |-> OneStep, fee_rate |-> Zero, slippage_pct |-> Zero, clock_step |-> 0],
      [data |-> OneStep, fee_rate |-> R(1, 100), slippage_pct |-> R(1, 10), clock_step |-> 1],
      [data |-> Uneven, fee_rate |-> R(1, 100), slippage_pct |-> Zero, clock_step |-> 0],
      [data |-> UnevenOther, fee_rate |-> Zero, slippage_pct |-> Zero, clock_step |-> 0],
      [data |-> OnlyBTC, fee_rate |-> Zero, slippage_pct |-> Zero, clock_step |-> 0],
      [data |-> NoData, fee_rate |-> Zero, slippage_pct |-> Zero, clock_step |-> 0] }

\* What a strategy may ask for: symbol, side and size.
Intents ==
    { [symbol |-> "BTC", is_buy |-> TRUE, size |-> 300],
      [symbol |-> "BTC", is_buy |-> FALSE, size |-> 300],
      [symbol |-> "ETH", is_buy |-> TRUE, size |-> 200],
      [symbol |-> "ETH", is_buy |-> TRUE, size |-> 300],
      [symbol |-> "ETH", is_buy |-> FALSE, size |-> 3] }

\* The order a strategy builds from an intent on a candle.  The strategies
\* label an order with a fresh uuid4 string; the label here is unique too and
\* names the on_candle call that built the order.
OrderOf(intent, strategy, idx, candle) ==
    [id |-> <<strategy, idx, candle.symbol>>,
     symbol |-> intent.symbol,
     is_buy |-> intent.is_buy,
     price |-> candle.close,
     size |-> intent.size]

Init ==
    /\ cash = InitialCash
    /\ positions = <<>>
    /\ history = <<>>
    /\ apply_calls = 0
    /\ trail = <<>>
    /\ notional = Zero
    /\ fees_paid = Zero
    /\ net = NoNet
    /\ dust = NoDust
    /\ got = None
    /\ fills = <<>>
    /\ requests = <<>>
    /\ wall = 0
    /\ \E sc \in Scenarios :
         /\ data = sc.data
         /\ fee_rate = sc.fee_rate
         /\ slippage_pct = sc.slippage_pct
         /\ clock_step = sc.clock_step
    /\ pc = "init"
    /\ num_steps = 0
    /\ current_index = 0
    /\ sym_i = 1
    /\ strat_i = 1
    /\ market_prices = <<>>
    /\ calls = <<>>
    /\ orders_emitted = 0
    /\ replay = NoReplay

\* The same, with a second run of the same inputs beside the first.
InitReplay ==
    /\ cash = InitialCash
    /\ positions = <<>>
    /\ history = <<>>
    /\ apply_calls = 0
    /\ trail = <<>>
    /\ notional = Zero
    /\ fees_paid = Zero
    /\ net = NoNet
    /\ dust = NoDust
    /\ got = None
    /\ fills = <<>>
    /\ requests = <<>>
    /\ wall = 0
    /\ \E sc \in Scenarios :
         /\ data = sc.data
         /\ fee_rate = sc.fee_rate
         /\ slippage_pct = sc.slippage_pct
         /\ clock_step = sc.clock_step
    /\ pc = "init"
    /\ num_steps = 0
    /\ current_index = 0
    /\ sym_i = 1
    /\ strat_i = 1
    /\ market_prices = <<>>
    /\ calls = <<>>
    /\ orders_emitted = 0
    /\ \E w \in ReplayStarts :
         replay = [on |-> TRUE,
                   b |-> [fills |-> <<>>, cash |-> InitialCash, positions |-> <<>>,
                          apply_calls |-> 0, wall |-> w, requests |-> <<>>],
                   history |-> <<>>]

\* The draws of the second run: none when there is no second run.
ReplayDraws == IF replay.on THEN Uniform(slippage_pct) ELSE {Zero}
ReplayCloseDraws ==
    IF replay.on
    THEN [1..Len(replay.b.positions) -> [uuid : Uuids, u : Uniform(slippage_pct)]]
    ELSE {<<>>}

SetBroker(b) ==
    /\ fills' = b.fills
    /\ cash' = b.cash
    /\ positions' = b.positions
    /\ apply_calls' = b.apply_calls
    /\ wall' = b.wall
    /\ requests' = b.requests

\* BacktesterEngine.initialize: hands the symbols, the portfolio and the data
\* to the strategies.  It looks at no series.
Initialize ==
    /\ pc = "init"
    /\ pc' = "start"
    /\ UNCHANGED <<ledgerVars, brokerVars, data, num_steps, current_index, sym_i,
                   strat_i, market_prices, calls, orders_emitted, replay>>

\* run_backtest, lines 41-42: count the steps and enter the loop.  min() of
\* no series at all raises ValueError.
Start ==
    /\ pc = "start"
    /\ num_steps' = min_len(data, DOMAIN data)
    /\ pc' = IF DOMAIN data = {} THEN "error"
             ELSE IF min_len(data, DOMAIN data) > 0 THEN "candle" ELSE "on_end"
    /\ UNCHANGED <<ledgerVars, brokerVars, data, current_index, sym_i, strat_i,
                   market_prices, calls, orders_emitted, replay>>

\* The step's map as it would be if run_backtest kept one map for the whole
\* run instead of starting an empty one at every step.
prices_with_carry_over(prices, k, symbol, close) ==
    [s \in DOMAIN prices \cup {symbol} |-> IF s = symbol THEN close ELSE prices[s]]

\* run_backtest, line 45 and line 58: the step's map starts empty and gets
\* each symbol's close as its candle is built.
prices_with(prices, k, symbol, close) ==
    LET base == IF k = 1 THEN <<>> ELSE prices
    IN  [s \in DOMAIN base \cup {symbol} |-> IF s = symbol THEN close ELSE base[s]]

\* run_backtest, lines 44-58: build the symbol's candle and record its close.
\* self.data[symbol] raises KeyError for a symbol without a series, .iloc[idx]
\* raises IndexError past the end of a series: the run aborts.
BuildCandle ==
    /\ pc = "candle"
    /\ LET symbol == Symbols[sym_i]
       IN  IF symbol \notin DOMAIN data \/ current_index + 1 > Len(data[symbol])
           THEN /\ pc' = "error"
                /\ UNCHANGED <<market_prices, strat_i>>
           ELSE /\ market_prices' = prices_with(market_prices, sym_i, symbol,
                                                data[symbol][current_index + 1].close)
                /\ strat_i' = 1
                /\ pc' = "dispatch"
    /\ UNCHANGED <<ledgerVars, brokerVars, data, num_steps, current_index, sym_i,
                   calls, orders_emitted, replay>>

\* Where the loops stand after the strategy at strat_i had its turn.
AfterDispatch ==
    IF strat_i < Len(Strategies)
    THEN /\ strat_i' = strat_i + 1
         /\ pc' = "dispatch"
         /\ sym_i' = sym_i
    ELSE /\ strat_i' = 1
         /\ IF sym_i < Len(Symbols)
            THEN sym_i' = sym_i + 1 /\ pc' = "candle"
            ELSE sym_i' = sym_i /\ pc' = "end_step"

\* run_backtest, lines 61-67: the strategy's on_candle, the order it returns
\* (if any) through the broker, and its on_fill.
Dispatch ==
    /\ pc = "dispatch"
    /\ LET symbol == Symbols[sym_i]
           candle == [symbol |-> symbol,
                      timestamp |-> data[symbol][current_index + 1].timestamp,
                      close |-> data[symbol][current_index + 1].close]
           strategy == Strategies[strat_i]
       IN  \/ /\ \E r \in {dispatch(BrokerState, calls, strategy, current_index,
                                      symbol, None, market_prices, fee_rate, Zero,
                                      clock_step)} :
                    SetBroker(r.b) /\ calls' = r.calls
               /\ UNCHANGED <<orders_emitted, replay>>
           \/ /\ orders_emitted < MaxOrders
               /\ orders_emitted' = orders_emitted + 1
               /\ \E intent \in Intents, u \in Uniform(slippage_pct) :
                    \E r \in {dispatch(BrokerState, calls, strategy, current_index,
                                       symbol,
                                       OrderOf(intent, strategy, current_index, candle),
                                       market_prices, fee_rate, u, clock_step)} :
                       /\ SetBroker(r.b)
                       /\ calls' = r.calls
                       /\ \E u2 \in ReplayDraws :
                            replay' =
                              IF replay.on
                              THEN [replay EXCEPT !.b =
                                      dispatch(replay.b, <<>>, strategy, current_index,
                                               symbol,
                                               OrderOf(intent, strategy, current_index,
                                                       candle),
                                               market_prices, fee_rate, u2,
                                               clock_step).b]
                              ELSE replay
    /\ AfterDispatch
    /\ UNCHANGED <<history, trail, notional, fees_paid, net, dust, got, fee_rate,
                   slippage_pct, clock_step, data, num_steps, current_index,
                   market_prices>>

\* run_backtest, lines 69-77: on the last step close all positions; record
\* the step's snapshot; go to the next step or leave the loop.
EndOfStep ==
    /\ pc = "end_step"
    /\ \E draws \in [1..Len(positions) -> [uuid : Uuids, u : Uniform(slippage_pct)]] :
         \E r \in {IF current_index = num_steps - 1
                    THEN _close_all_positions(BrokerState, calls, current_index,
                                              market_prices, fee_rate, draws,
                                              clock_step)
                    ELSE [b |-> BrokerState, calls |-> calls]} :
         LET timestamp == data[Symbols[1]][current_index + 1].timestamp
         IN  /\ \E pf \in {record_snapshot([cash |-> r.b.cash,
                                              positions |-> r.b.positions,
                                              history |-> history],
                                             timestamp, market_prices)} :
                  /\ SetBroker([r.b EXCEPT !.cash = pf.cash,
                                           !.positions = pf.positions])
                  /\ history' = pf.history
             /\ calls' = r.calls
             /\ \E draws2 \in ReplayCloseDraws :
                  \E r2 \in {IF ~replay.on THEN NoReplay
                             ELSE IF current_index = num_steps - 1
                             THEN _close_all_positions(replay.b, <<>>, current_index,
                                                       market_prices, fee_rate, draws2,
                                                       clock_step)
                             ELSE [b |-> replay.b, calls |-> <<>>]} :
                     replay' =
                       IF replay.on
                       THEN [replay EXCEPT
                               !.b = r2.b,
                               !.history =
                                   record_snapshot([cash |-> r2.b.cash,
                                                    positions |-> r2.b.positions,
                                                    history |-> replay.history],
                                                   timestamp, market_prices).history]
                       ELSE replay
    /\ IF current_index + 1 < num_steps
       THEN current_index' = current_index + 1 /\ sym_i' = 1 /\ pc' = "candle"
       ELSE current_index' = current_index /\ sym_i' = sym_i /\ pc' = "on_end"
    /\ UNCHANGED <<trail, notional, fees_paid, net, dust, got, fee_rate,
                   slippage_pct, clock_step, data, num_steps, strat_i, market_prices,
                   orders_emitted>>

\* run_backtest, lines 79-82: the end-of-backtest hooks.
Finish ==
    /\ pc = "on_end"
    /\ calls' = end_hooks(calls, 1, current_index, BrokerState)
    /\ pc' = "done"
    /\ UNCHANGED <<ledgerVars, brokerVars, data, num_steps, current_index, sym_i,
                   strat_i, market_prices, orders_emitted, replay>>

Next == Initialize \/ Start \/ BuildCandle \/ Dispatch \/ EndOfStep \/ Finish

Spec == Init /\ [][Next]_allVars

SpecReplay == InitReplay /\ [][Next]_allVars

\* The runs over series of different lengths.  run_backtest is one
\* sequential loop: whenever it has a next statement it executes it.
UnequalLengths ==
    /\ DOMAIN data = SymbolSet
    /\ \E s, t \in SymbolSet : Len(data[s]) # Len(data[t])
FairInit ==
    /\ Init
    /\ DOMAIN data = SymbolSet
    /\ \E s, t \in SymbolSet : Len(data[s]) # Len(data[t])
FairSpec == FairInit /\ [][Next]_allVars /\ WF_allVars(Next)

-----------------------------------------------------------------------------
(* SpecLedger: a caller applies fills to a Portfolio, one apply_fill call  *)
(* per step, for every fill of a bounded set.                              *)

MaxFills == 3
FillSizes == {1, 3, 4, 8}

LedgerFills ==
    [symbol : {"BTC"}, is_buy : BOOLEAN, size : FillSizes,
     price : MarkPrices, fee : {Zero}]
    \cup [symbol : {"BTC"}, is_buy : BOOLEAN, size : {3},
          price : {RInt(10)}, fee : {RInt(1)}]
    \cup [symbol : {"ETH"}, is_buy : BOOLEAN, size : {3},
          price : {RInt(10)}, fee : {Zero}]

\* The trail keeps the latest two calls.
Remember(tr, fill, ledger) ==
    LET e == [fill |-> fill, before |-> ledger]
    IN  IF Len(tr) < 2 THEN Append(tr, e) ELSE <<tr[2], e>>

ClosingPrices == [s \in SymbolSet |-> IF s = "BTC" THEN RInt(10) ELSE RInt(20)]

RECURSIVE SumNotional(_, _)
SumNotional(fs, acc) ==
    IF fs = <<>> THEN acc
    ELSE SumNotional(Tail(fs),
                     RAdd(acc, RScale(signed_size_of(Head(fs)), Head(fs).price)))

\* What one apply_fill call leaves out of the position pos, by the thresholds
\* of lines 57, 62 and 75: the size, and that size at the price it stood at.
\*   - a reducing trade that leaves less than 1e-10: the remainder, at the
\*     position's avg_price (lines 57-59);
\*   - a flipping trade that exceeds the position by at most 1e-10: the
\*     excess, at the trade's price (line 62);
\*   - a trade of at most 1e-10 on a flat or same-direction position: the
\*     whole trade, at the trade's price (line 62).
left_out(pos, signed_size, price) ==
    LET total == pos.size + signed_size
        nothing == [size |-> 0, value |-> Zero]
    IN  IF pos.size * signed_size < 0
        THEN IF Abs(signed_size) <= Abs(pos.size)
             THEN IF Abs(total) < EPS
                  THEN [size |-> total, value |-> RScale(total, pos.avg_price)]
                  ELSE nothing
             ELSE IF Abs(total) <= EPS
                  THEN [size |-> total, value |-> RScale(total, price)]
                  ELSE nothing
        ELSE IF Abs(signed_size) <= EPS
             THEN [size |-> signed_size, value |-> RScale(signed_size, price)]
             ELSE nothing

with_dust(d, symbol, out) ==
    [size |-> [d.size EXCEPT ![symbol] = @ + out.size],
     value |-> RAdd(d.value, out.value)]

RECURSIVE SumFees(_, _)
SumFees(fs, acc) ==
    IF fs = <<>> THEN acc ELSE SumFees(Tail(fs), RAdd(acc, Head(fs).fee))

InitLedger ==
    /\ cash = InitialCash
    /\ positions = <<>>
    /\ history = <<>>
    /\ apply_calls = 0
    /\ trail = <<>>
    /\ notional = Zero
    /\ fees_paid = Zero
    /\ net = NoNet
    /\ dust = NoDust
    /\ got = None
    /\ fills = <<>>
    /\ requests = <<>>
    /\ fee_rate = Zero
    /\ slippage_pct = Zero
    /\ wall = 0
    /\ clock_step = 0
    /\ data = TwoSteps
    /\ pc = "ledger"
    /\ num_steps = 0
    /\ current_index = 0
    /\ sym_i = 1
    /\ strat_i = 1
    /\ market_prices = <<>>
    /\ calls = <<>>
    /\ orders_emitted = 0
    /\ replay = NoReplay

\* One Portfolio.apply_fill call.
Applying(fill) ==
    /\ \E pf \in {apply_fill([cash |-> cash, positions |-> positions], fill)} :
             /\ cash' = pf.cash
             /\ positions' = pf.positions
             /\ apply_calls' = apply_calls + 1
             /\ trail' = Remember(trail, fill, [cash |-> cash, positions |-> positions])
             /\ notional' = RAdd(notional, RScale(signed_size_of(fill), fill.price))
             /\ fees_paid' = RAdd(fees_paid, fill.fee)
    /\ got' = None
    /\ UNCHANGED <<history, brokerVars, engineVars>>

ApplyFill ==
    /\ pc = "ledger"
    /\ apply_calls < MaxFills
    /\ \E fill \in LedgerFills : Applying(fill)
    /\ UNCHANGED <<net, dust>>

\* A caller (a strategy, short_breakout_strategy.py line 51) reads a position.
GetPosition ==
    /\ pc \in {"ledger", "closed"}
    /\ \E symbol \in SymbolSet :
         \E r \in {Portfolio_get_position([cash |-> cash, positions |-> positions,
                                           history |-> history], symbol)} :
             /\ cash' = r.pf.cash
             /\ positions' = r.pf.positions
             /\ history' = r.pf.history
             /\ got' = [symbol |-> symbol, result |-> r.result]
    /\ UNCHANGED <<apply_calls, trail, notional, fees_paid, net, dust, brokerVars,
                   engineVars>>

\* The end of a run: the engine's _close_all_positions on the ledger, every
\* symbol priced.  No fill is applied after it.
ClosePositions ==
    /\ pc = "ledger"
    /\ \E r \in {_close_all_positions(BrokerState, calls, 0, ClosingPrices, fee_rate,
                                        [k \in 1..Len(positions) |->
                                           [uuid |-> "u1", u |-> Zero]],
                                        clock_step)} :
         /\ SetBroker(r.b)
         /\ calls' = r.calls
         /\ notional' = SumNotional(r.b.fills, notional)
         /\ fees_paid' = SumFees(r.b.fills, fees_paid)
    /\ trail' = <<>>
    /\ pc' = "closed"
    /\ UNCHANGED <<history, net, dust, got, fee_rate, slippage_pct, clock_step, data, num_steps,
                   current_index, sym_i, strat_i, market_prices, orders_emitted,
                   replay>>

NextLedger == ApplyFill \/ GetPosition \/ ClosePositions

SpecLedger == InitLedger /\ [][NextLedger]_allVars

\* Sequences of apply_fill calls with the books kept beside them: per symbol
\* the sum of the signed sizes applied, and what the thresholds left out.
ApplyFillTallied ==
    /\ pc = "ledger"
    /\ apply_calls < MaxFills
    /\ \E fill \in LedgerFills :
         /\ Applying(fill)
         /\ net' = [net EXCEPT ![fill.symbol] = @ + signed_size_of(fill)]
         /\ dust' = with_dust(dust, fill.symbol,
                              left_out(get_position(positions, fill.symbol),
                                       signed_size_of(fill), fill.price))

SpecTally == InitLedger /\ [][ApplyFillTallied]_allVars

-----------------------------------------------------------------------------
(* The latest apply_fill call, read from the trail.                        *)

Applied == Len(trail) > 0
Last == trail[Len(trail)]
Signed == signed_size_of(Last.fill)
OldPos == get_position(Last.before.positions, Last.fill.symbol)
NewPos == get_position(positions, Last.fill.symbol)
Sign(x) == IF x > 0 THEN 1 ELSE IF x < 0 THEN -1 ELSE 0

\* C1: every apply_fill changes cash by exactly -(signed size) * price - fee,
\* whatever the position was, so cash is the initial cash minus the summed
\* signed notional minus the summed fees (with zero fees: minus the notional).
C1_CashConservation ==
    /\ Applied =>
          cash = RSub(RSub(Last.before.cash, RScale(Signed, Last.fill.price)),
                      Last.fill.fee)
    /\ cash = RSub(RSub(InitialCash, notional), fees_paid)
    /\ fees_paid = Zero => cash = RSub(InitialCash, notional)

\* C1 witness: a sell that flipped a long position to short, after a fee was paid.
C1_Witness ==
    /\ Applied
    /\ OldPos.size > 0
    /\ NewPos.size < 0
    /\ fees_paid # Zero
    /\ cash # InitialCash

\* C2 as stated: a reducing or flipping trade realizes closed * (price - avg)
\* * sign(old); a smaller trade shrinks the position and keeps avg_price, an
\* equal one leaves 0 @ 0, a larger one flips to old + signed @ trade price.
C2_Original ==
    (Applied /\ OldPos.size * Signed < 0) =>
        LET closed == Min(Abs(OldPos.size), Abs(Signed))
        IN  /\ NewPos.realized_pnl =
                  RAdd(OldPos.realized_pnl,
                       RScale(closed * Sign(OldPos.size),
                              RSub(Last.fill.price, OldPos.avg_price)))
            /\ Abs(Signed) < Abs(OldPos.size) =>
                  /\ NewPos.size = OldPos.size + Signed
                  /\ NewPos.avg_price = OldPos.avg_price
            /\ Abs(Signed) = Abs(OldPos.size) =>
                  /\ NewPos.size = 0
                  /\ NewPos.avg_price = Zero
            /\ Abs(Signed) > Abs(OldPos.size) =>
                  /\ NewPos.size = OldPos.size + Signed
                  /\ NewPos.avg_price = Last.fill.price

\* C2 amended: as C2, but a remainder of the position below 1e-10 is reset to
\* 0 @ 0, and a flip opens the new position only when the excess of the trade
\* over the position is above 1e-10; otherwise the position ends 0 @ 0.
C2_ReduceOrFlip ==
    (Applied /\ OldPos.size * Signed < 0) =>
        LET closed == Min(Abs(OldPos.size), Abs(Signed))
            left == Abs(OldPos.size) - Abs(Signed)
            excess == Abs(Signed) - Abs(OldPos.size)
        IN  /\ NewPos.realized_pnl =
                  RAdd(OldPos.realized_pnl,
                       RScale(closed * Sign(OldPos.size),
                              RSub(Last.fill.price, OldPos.avg_price)))
            /\ left >= EPS =>
                  /\ NewPos.size = OldPos.size + Signed
                  /\ NewPos.avg_price = OldPos.avg_price
            /\ (left < EPS /\ excess <= EPS) =>
                  /\ NewPos.size = 0
                  /\ NewPos.avg_price = Zero
            /\ excess > EPS =>
                  /\ NewPos.size = OldPos.size + Signed
                  /\ NewPos.avg_price = Last.fill.price

\* C2 witness: short 3 @ 10, then buy 8 @ 20: realized -30, long 5 @ 20.
C2_Witness ==
    /\ Applied
    /\ OldPos.size = -3
    /\ OldPos.avg_price = RInt(10)
    /\ Signed = 8
    /\ Last.fill.price = RInt(20)
    /\ NewPos.size = 5
    /\ NewPos.avg_price = RInt(20)
    /\ NewPos.realized_pnl = RAdd(OldPos.realized_pnl, RInt(-30))

\* The latest two apply_fill calls are a round trip on a flat symbol: the
\* same symbol, size and price, opposite sides, zero fees.
RoundTrip ==
    /\ Len(trail) = 2
    /\ trail[1].fill.symbol = trail[2].fill.symbol
    /\ trail[1].fill.size = trail[2].fill.size
    /\ trail[1].fill.price = trail[2].fill.price
    /\ trail[1].fill.is_buy # trail[2].fill.is_buy
    /\ trail[1].fill.fee = Zero
    /\ trail[2].fill.fee = Zero
    /\ get_position(trail[1].before.positions, trail[1].fill.symbol).size = 0

\* C3: after a round trip on a flat symbol (buy then sell, or sell then buy)
\* the position is 0 @ 0, its realized PnL is what it was and cash is back
\* to its value before the two trades.
C3_RoundTrip ==
    RoundTrip =>
        LET start == get_position(trail[1].before.positions, trail[1].fill.symbol)
        IN  /\ NewPos.size = 0
            /\ NewPos.avg_price = Zero
            /\ NewPos.realized_pnl = start.realized_pnl
            /\ cash = trail[1].before.cash

\* C3 witness: a sell-then-buy round trip of a size that opens a position, on
\* a flat symbol: short after the first trade, flat after the second.
C3_Witness ==
    /\ RoundTrip
    /\ ~trail[1].fill.is_buy
    /\ get_position(trail[2].before.positions, trail[2].fill.symbol).size < 0
    /\ NewPos.size = 0

\* C4 as stated: adding in the same direction gives size old + signed and
\* the size-weighted average price, realized PnL unchanged.
C4_Original ==
    (Applied /\ OldPos.size * Signed > 0) =>
        /\ NewPos.size = OldPos.size + Signed
        /\ RScale(Abs(NewPos.size), NewPos.avg_price) =
              RAdd(RScale(Abs(OldPos.size), OldPos.avg_price),
                   RScale(Abs(Signed), Last.fill.price))
        /\ NewPos.realized_pnl = OldPos.realized_pnl

\* C4 amended: the same for an added size above 1e-10; an added size of at
\* most 1e-10 leaves the position (size, avg_price, realized PnL) unchanged.
C4_AddSameDirection ==
    (Applied /\ OldPos.size * Signed > 0) =>
        /\ Abs(Signed) > EPS =>
              /\ NewPos.size = OldPos.size + Signed
              /\ NewPos.avg_price =
                    RDivInt(RAdd(RScale(Abs(OldPos.size), OldPos.avg_price),
                                 RScale(Abs(Signed), Last.fill.price)),
                            Abs(OldPos.size + Signed))
              /\ NewPos.realized_pnl = OldPos.realized_pnl
        /\ Abs(Signed) <= EPS => NewPos = OldPos

\* C4 witness: long 4 @ 10, then buy 4 @ 20: long 8 @ 15.
C4_Witness ==
    /\ Applied
    /\ OldPos.size = 4
    /\ OldPos.avg_price = RInt(10)
    /\ Signed = 4
    /\ Last.fill.price = RInt(20)
    /\ NewPos.size = 8
    /\ NewPos.avg_price = RInt(15)

\* C5: every position of the ledger has |size| >= 1e-10, or size 0 and
\* avg_price 0.
C5_EpsilonClosure ==
    \A i \in 1..Len(positions) :
        \/ Abs(positions[i].size) >= EPS
        \/ positions[i].size = 0 /\ positions[i].avg_price = Zero

\* C5 witness: a reducing trade left less than 1e-10 of a priced position,
\* which now reads 0 @ 0.
C5_Witness ==
    /\ Applied
    /\ OldPos.size * Signed < 0
    /\ Abs(OldPos.size + Signed) < EPS
    /\ OldPos.size + Signed # 0
    /\ OldPos.avg_price # Zero
    /\ NewPos.size = 0
    /\ NewPos.avg_price = Zero

-----------------------------------------------------------------------------
(* The run: what the broker was asked, what it logged, which hooks ran.    *)

Priced(req) == req.order.symbol \in DOMAIN req.prices
PricedRequests == SelectSeq(requests, Priced)
IsClosing(fill) == fill.order_id[1] = "CLOSE"
Ledger == [cash |-> cash, positions |-> positions]
LastStepEnds == pc = "end_step" /\ current_index = num_steps - 1

\* C6: when the last step ends every position is left with size 0, in the
\* ledger and in the final snapshot, and every position open before the
\* liquidation was closed by a trade of the opposite side and of its size.
C6_ForcedLiquidation ==
    [][LastStepEnds =>
         /\ \A k \in 1..Len(positions') : positions'[k].size = 0
         /\ \A k \in 1..Len(history'[Len(history')].positions) :
                history'[Len(history')].positions[k].size = 0
         /\ \A k \in 1..Len(positions) :
                positions[k].size # 0 =>
                    \E j \in (Len(fills) + 1)..Len(fills') :
                        /\ fills'[j].symbol = positions[k].symbol
                        /\ fills'[j].is_buy = (positions[k].size < 0)
                        /\ fills'[j].size = Abs(positions[k].size)]_allVars

\* C7: a second run on the same data, strategies, fee rate and slippage
\* fraction ends with the same trade log, field for field, and the same
\* final equity.
C7_Determinism ==
    (pc = "done" /\ replay.on) =>
        /\ fills = replay.b.fills
        /\ equity(Ledger, market_prices)
             = equity([cash |-> replay.b.cash, positions |-> replay.b.positions],
                      market_prices)

\* C8: the trades of the log are, one for one and in order, the priced orders
\* submit_order was called with, each with the order's size and side; each
\* was applied to the ledger once, whatever the cash balance, so the log is as
\* long as the count of apply_fill calls and cash is the initial cash less
\* every logged trade's cost and fee.
C8_ExactlyOnce ==
    /\ Len(fills) = apply_calls
    /\ Len(PricedRequests) = Len(fills)
    /\ \A k \in 1..Min(Len(fills), Len(PricedRequests)) :
           /\ fills[k].order_id = PricedRequests[k].order.id
           /\ fills[k].symbol = PricedRequests[k].order.symbol
           /\ fills[k].size = PricedRequests[k].order.size
           /\ fills[k].is_buy = PricedRequests[k].order.is_buy
    /\ cash = RSub(RSub(InitialCash, SumNotional(fills, Zero)), SumFees(fills, Zero))

\* C8 witness: a buy was executed in full although it took cash below zero.
C8_Witness ==
    /\ Len(fills) > 0
    /\ fills[Len(fills)].is_buy
    /\ fills[Len(fills)].size = requests[Len(requests)].order.size
    /\ RLt(cash, Zero)

\* C9: a submit_order call whose order has no mark price logs no trade,
\* leaves cash and positions as they were, calls no on_fill (the step's only
\* hook call is the on_candle that returned the order) and the run goes on to
\* the next dispatch.
C9_SilentDrop ==
    [][(Len(requests') = Len(requests) + 1 /\ ~Priced(requests'[Len(requests')])) =>
         /\ fills' = fills
         /\ apply_calls' = apply_calls
         /\ cash' = cash
         /\ positions' = positions
         /\ Len(calls') = Len(calls) + 1
         /\ calls'[Len(calls')].hook = "on_candle"
         /\ pc' \in {"dispatch", "candle", "end_step"}]_allVars

\* C9 witness: after a trade, an order for a symbol without a mark price was
\* submitted; the log still holds that one trade, the symbol has no position.
C9_Witness ==
    /\ Len(requests) = 2
    /\ Priced(requests[1])
    /\ ~Priced(requests[2])
    /\ Len(fills) = 1
    /\ ~HasPosition(positions, requests[2].order.symbol)
    /\ calls[Len(calls)].hook = "on_candle"

SymbolIndex(s) == CHOOSE i \in 1..Len(Symbols) : Symbols[i] = s
StrategyIndex(s) == CHOOSE i \in 1..Len(Strategies) : Strategies[i] = s
IsCandleCall(c) == c.hook = "on_candle"
CandleCalls == SelectSeq(calls, IsCandleCall)
Turn(c) == <<c.step, SymbolIndex(c.symbol), StrategyIndex(c.strategy)>>
NextTurn(t) ==
    IF t[3] < Len(Strategies) THEN <<t[1], t[2], t[3] + 1>>
    ELSE IF t[2] < Len(Symbols) THEN <<t[1], t[2] + 1, 1>>
    ELSE <<t[1] + 1, 1, 1>>
FillCallsBefore(i) == Cardinality({j \in 1..(i - 1) : calls[j].hook = "on_fill"})

\* C10: the on_candle calls run through the (step, symbol, strategy) triples
\* in lexicographic order, one call per triple; a trade made on a strategy's
\* order is logged, applied to the ledger and told to that strategy's on_fill
\* right after its on_candle, so that every on_candle call sees a ledger with
\* all earlier trades applied and notified.
C10_DispatchTotalOrder ==
    /\ Len(CandleCalls) > 0 => Turn(CandleCalls[1]) = <<0, 1, 1>>
    /\ \A i \in 1..(Len(CandleCalls) - 1) :
           Turn(CandleCalls[i + 1]) = NextTurn(Turn(CandleCalls[i]))
    /\ pc = "done" => Len(CandleCalls) = num_steps * Len(Symbols) * Len(Strategies)
    /\ \A i \in 1..Len(calls) :
           /\ calls[i].hook = "on_candle" =>
                  /\ calls[i].n_applied = calls[i].n_fills
                  /\ calls[i].n_fills = FillCallsBefore(i)
           /\ (calls[i].hook = "on_fill" /\ ~IsClosing(fills[calls[i].n_fills])) =>
                  /\ i > 1
                  /\ calls[i - 1].hook = "on_candle"
                  /\ calls[i - 1].strategy = calls[i].strategy
                  /\ calls[i - 1].step = calls[i].step
                  /\ calls[i].n_fills = calls[i - 1].n_fills + 1
                  /\ calls[i].n_applied = calls[i].n_fills
    /\ \A k \in 1..Len(fills) :
           ~IsClosing(fills[k]) =>
               \E i \in 1..Len(calls) :
                   /\ calls[i].hook = "on_fill"
                   /\ calls[i].n_fills = k
                   /\ calls[i].strategy = fills[k].order_id[1]

\* C10 witness: in one step the first strategy traded on the first symbol's
\* candle and the second strategy's on_candle for that symbol came after the
\* trade was applied and notified; the run has finished.
C10_Witness ==
    /\ pc = "done"
    /\ Len(calls) >= 3
    /\ calls[1].hook = "on_candle" /\ calls[1].strategy = Strategies[1]
    /\ calls[2].hook = "on_fill" /\ calls[2].strategy = Strategies[1]
    /\ calls[3].hook = "on_candle" /\ calls[3].strategy = Strategies[2]
    /\ calls[3].symbol = calls[1].symbol
    /\ calls[3].n_applied = 1

-----------------------------------------------------------------------------
(* Mark prices, snapshots and reads.                                       *)

\* The closes of step idx for the first k symbols.
StepCloses(idx, k) ==
    [s \in {Symbols[j] : j \in 1..k} |-> data[s][idx + 1].close]
\* The step and the number of candles built when the request was made.
RequestStep(req) == IF req.order.id[1] = "CLOSE" THEN num_steps - 1 ELSE req.order.id[2]
RequestBuilt(req) ==
    IF req.order.id[1] = "CLOSE" THEN Len(Symbols) ELSE SymbolIndex(req.order.id[3])
SlippedPrices(mark) == {RMul(mark, RAdd(RInt(1), u)) : u \in Uniform(slippage_pct)}

StepLocalPrices ==
    /\ pc = "dispatch" => market_prices = StepCloses(current_index, sym_i)
    /\ \A i \in 1..Len(requests) :
           requests[i].prices = StepCloses(RequestStep(requests[i]),
                                           RequestBuilt(requests[i]))
    /\ \A k \in 1..Min(Len(fills), Len(PricedRequests)) :
           fills[k].price \in
               SlippedPrices(data[fills[k].symbol][RequestStep(PricedRequests[k]) + 1].close)

\* C11: the map an order is priced from holds the current step's closes of
\* the symbols whose candle is already built, and nothing else; every trade's
\* price is its own symbol's close of the step it was made in (slipped by the
\* configured fraction); a trade once logged is never changed.
\* (The run's last steps, into "done" or "error", leave the map, the requests
\* and the log alone, so StepLocalPrices holds in the last state as well.)
C11_StepLocalPrices ==
    [][/\ StepLocalPrices
       /\ pc' \in {"done", "error"} =>
              /\ market_prices' = market_prices
              /\ requests' = requests
              /\ fills' = fills
       /\ \A k \in 1..Len(fills) : k <= Len(fills') /\ fills'[k] = fills[k]]_allVars

\* C11 witness: in the second step, on the first symbol's candle, an order for
\* the second symbol found no price although the first step had one, and an
\* order for the first symbol traded at the second step's close.
C11_Witness ==
    /\ Len(requests) = 2
    /\ requests[1].order.id[2] = 1
    /\ requests[1].order.id[3] = Symbols[1]
    /\ requests[1].order.symbol = Symbols[2]
    /\ ~Priced(requests[1])
    /\ Len(fills) >= 1
    /\ fills[1].order_id[2] = 1
    /\ fills[1].symbol = Symbols[1]
    /\ fills[1].price = data[Symbols[1]][2].close
    /\ fills[1].price # data[Symbols[1]][1].close

HistoryShape ==
    /\ pc \notin {"init", "start"} =>
           Len(history) = IF pc \in {"on_end", "done"} THEN num_steps ELSE current_index
    /\ \A i \in 1..Len(history) :
           history[i].timestamp = data[Symbols[1]][i].timestamp
    /\ \A i \in 1..(Len(history) - 1) :
           history[i].timestamp <= history[i + 1].timestamp

\* C12: the history holds one snapshot per finished step, the i-th with the
\* i-th timestamp of the first symbol's series, in chronological order; a
\* snapshot is appended only at the end of a step, after all of the step's
\* on_candle calls and after the last step's liquidation.
C12_HistoryShape ==
    [][/\ HistoryShape'
       /\ history' # history =>
              /\ pc = "end_step"
              /\ Len(history') = Len(history) + 1
              /\ \A i \in 1..Len(history) : history'[i] = history[i]
              /\ history'[Len(history')].cash = cash'
              /\ history'[Len(history')].positions = positions'
              /\ Len(CandleCalls) =
                     (current_index + 1) * Len(Symbols) * Len(Strategies)]_allVars

\* C12 witness: a finished two-step run with trades: two snapshots, stamped
\* with the series' two timestamps.
C12_Witness ==
    /\ pc = "done"
    /\ num_steps = 2
    /\ Len(history) = 2
    /\ history[1].timestamp < history[2].timestamp
    /\ Len(fills) > 0

\* C13: whatever happens after a snapshot is appended, a reader finds in it
\* the timestamp, cash, equity and positions it was appended with; recording
\* a snapshot (the end of a step that is not the last) appends one entry and
\* leaves cash and the live positions as they were.
C13_SnapshotIsolation ==
    [][/\ Len(history') >= Len(history)
       /\ \A i \in 1..Min(Len(history), Len(history')) :
              /\ history'[i].timestamp = history[i].timestamp
              /\ history'[i].cash = history[i].cash
              /\ history'[i].equity = history[i].equity
              /\ positions_seen(history'[i], positions')
                     = positions_seen(history[i], positions)
       /\ (pc = "end_step" /\ current_index # num_steps - 1) =>
              /\ cash' = cash
              /\ positions' = positions
              /\ Len(history') = Len(history) + 1]_allVars

\* C13 witness: the run has finished; the first step's snapshot still shows
\* an open position, which trades and the liquidation changed afterwards.
C13_Witness ==
    /\ pc = "done"
    /\ Len(history) = 2
    /\ Len(history[1].positions) >= 1
    /\ history[1].positions[1].size # 0
    /\ positions_seen(history[1], positions) # positions
    /\ history[1].cash # cash

\* C14: a get_position call changes neither cash, positions nor history, and
\* for a symbol without a position returns a zero position without adding the
\* symbol to the ledger; positions are added by apply_fill only and never
\* removed.
C14_GetPositionPure ==
    [][/\ (pc' = pc /\ apply_calls' = apply_calls) =>
              /\ cash' = cash
              /\ positions' = positions
              /\ history' = history
              /\ got' # None =>
                     got'.result = IF HasPosition(positions, got'.symbol)
                                   THEN positions[PosIndex(positions, got'.symbol)]
                                   ELSE [symbol |-> got'.symbol, size |-> 0,
                                         avg_price |-> Zero, realized_pnl |-> Zero]
       /\ Len(positions') >= Len(positions)
       /\ \A i \in 1..Min(Len(positions), Len(positions')) :
              positions'[i].symbol = positions[i].symbol
       /\ Len(positions') > Len(positions) =>
              apply_calls' = apply_calls + 1]_allVars

\* C14 witness: the ledger holds a position in one symbol; get_position was
\* called for another and returned a zero position, and the ledger still has
\* no entry for that symbol.
C14_Witness ==
    /\ got # None
    /\ Len(positions) = 1
    /\ positions[1].size # 0
    /\ ~HasPosition(positions, got.symbol)
    /\ got.result.size = 0
    /\ got.result.avg_price = Zero

-----------------------------------------------------------------------------
(* Configuration, truncation and the end of the run.                       *)

Misconfigured == \E j \in 1..Len(Symbols) : Symbols[j] \notin DOMAIN data

\* C15: when a registered symbol has no series, no strategy hook is ever
\* called, no trade is made and the ledger stays as constructed: the run is
\* refused before it starts.
C15_RejectedBeforeRun ==
    Misconfigured =>
        /\ calls = <<>>
        /\ fills = <<>>
        /\ requests = <<>>
        /\ positions = <<>>
        /\ cash = InitialCash

Unequal == UnequalLengths
ShortestLen ==
    CHOOSE n \in {Len(data[s]) : s \in DOMAIN data} :
        \A t \in DOMAIN data : n <= Len(data[t])
CandleCallsOfStep(idx) ==
    Cardinality({i \in 1..Len(calls) : IsCandleCall(calls[i]) /\ calls[i].step = idx})

Truncated ==
    /\ pc # "error"
    /\ pc \notin {"init", "start"} => num_steps = ShortestLen
    /\ current_index <= ShortestLen - 1
    /\ \A i \in 1..Len(calls) :
           /\ calls[i].step \in 0..(ShortestLen - 1)
           /\ (calls[i].hook = "on_fill" /\ IsClosing(fills[calls[i].n_fills])) =>
                  calls[i].step = ShortestLen - 1
    /\ \A i \in 1..(Len(CandleCalls) - 1) :
           CandleCalls[i].step <= CandleCalls[i + 1].step
    /\ pc = "done" =>
           /\ Len(history) = ShortestLen
           /\ \A idx \in 0..(ShortestLen - 1) :
                  CandleCallsOfStep(idx) = Len(Symbols) * Len(Strategies)

\* C16: with series of different lengths the run raises nothing, runs the
\* steps 0..N-1 in increasing order, each once, N being the shortest series'
\* length, liquidates at step N-1, and ends.
C16_Truncation ==
    /\ [](Unequal => Truncated)
    /\ Unequal => <>(pc = "done")

\* C16 witness: series of lengths 2 and 1; the run ended after its one step,
\* with a closing trade made at step 0.
C16_Witness ==
    /\ Unequal
    /\ Len(data[Symbols[1]]) = 2
    /\ pc = "done"
    /\ num_steps = 1
    /\ Len(history) = 1
    /\ Len(fills) > 0
    /\ IsClosing(fills[Len(fills)])

IsEndCall(c) == c.hook = "on_end"
EndCalls == SelectSeq(calls, IsEndCall)

\* C17: in a finished run each strategy's on_end was called once, in
\* registration order; the on_end calls come after every on_candle and on_fill
\* call, with the whole trade log applied and every step's snapshot recorded;
\* before the run is finished no on_end has been called.
C17_EndHook ==
    /\ \A i \in 1..Len(calls) :
           calls[i].hook = "on_end" =>
               /\ \A j \in (i + 1)..Len(calls) : calls[j].hook = "on_end"
               /\ calls[i].n_fills = Len(fills)
               /\ calls[i].n_applied = apply_calls
               /\ Len(history) = num_steps
    /\ pc = "done" =>
           /\ Len(EndCalls) = Len(Strategies)
           /\ \A k \in 1..Min(Len(EndCalls), Len(Strategies)) :
                  EndCalls[k].strategy = Strategies[k]
    /\ pc # "done" => EndCalls = <<>>

\* C17 witness: a finished run whose last step liquidated a position: the
\* calls end with the closing trade's on_fill and then the on_end calls.
C17_Witness ==
    /\ pc = "done"
    /\ Len(fills) > 0
    /\ IsClosing(fills[Len(fills)])
    /\ Len(calls) > Len(Strategies)
    /\ calls[Len(calls) - Len(Strategies)].hook = "on_fill"
    /\ \A k \in 1..Len(Strategies) :
           /\ calls[Len(calls) - Len(Strategies) + k].hook = "on_end"
           /\ calls[Len(calls) - Len(Strategies) + k].strategy = Strategies[k]

\* C18: every trade's price lies within the slippage fraction of the mark
\* price of its symbol, is that mark price when the fraction is 0, whatever
\* price the order names, and its fee is price * size * fee_rate.
C18_ExecutionPricing ==
    \A k \in 1..Min(Len(fills), Len(PricedRequests)) :
        LET mark == PricedRequests[k].prices[fills[k].symbol]
            lo == RMul(mark, RSub(RInt(1), slippage_pct))
            hi == RMul(mark, RAdd(RInt(1), slippage_pct))
        IN  /\ ~RLt(fills[k].price, lo)
            /\ ~RLt(hi, fills[k].price)
            /\ slippage_pct = Zero => fills[k].price = mark
            /\ fills[k].fee = RMul(RScale(fills[k].size, fills[k].price), fee_rate)

\* C18 witness: an order naming another price than its symbol's mark price
\* traded with slippage: off the mark price, off the order's price, with a fee.
C18_Witness ==
    /\ Len(fills) > 0
    /\ slippage_pct # Zero
    /\ fills[1].price # PricedRequests[1].prices[fills[1].symbol]
    /\ PricedRequests[1].order.price # PricedRequests[1].prices[fills[1].symbol]
    /\ fills[1].price # PricedRequests[1].order.price
    /\ fills[1].fee # Zero

-----------------------------------------------------------------------------
(* Liquidation and equity.                                                 *)

OpenPositions == {k \in 1..Len(positions) : positions[k].size # 0}
NewRequests == (Len(requests) + 1)..Len(requests')
NewFills == Len(fills') - Len(fills)

\* C19: closing orders are made only when the last step ends, after the
\* step's dispatch and before its snapshot: one per position with a nonzero
\* size, of the opposite side and the position's size, at the symbol's mark
\* price, through submit_order (logged, with fee and slippage), each closing
\* trade told once to every strategy's on_fill in registration order; a
\* trade on a strategy's own order is told to that strategy only.
C19_LiquidationNotified ==
    [][/\ LastStepEnds =>
              /\ \A k \in OpenPositions :
                     Cardinality({j \in NewRequests :
                         requests'[j].order.symbol = positions[k].symbol}) = 1
              /\ \A j \in NewRequests :
                     /\ requests'[j].order.id[1] = "CLOSE"
                     /\ \E k \in OpenPositions :
                            /\ requests'[j].order.symbol = positions[k].symbol
                            /\ requests'[j].order.is_buy = (positions[k].size < 0)
                            /\ requests'[j].order.size = Abs(positions[k].size)
                            /\ requests'[j].order.price
                                   = market_prices[positions[k].symbol]
              /\ NewFills = Len(requests') - Len(requests)
              /\ \A f \in 1..NewFills :
                     LET fill == fills'[Len(fills) + f]
                     IN  /\ fill.price \in SlippedPrices(market_prices[fill.symbol])
                         /\ fill.fee = RMul(RScale(fill.size, fill.price), fee_rate)
              /\ Len(calls') = Len(calls) + NewFills * Len(Strategies)
              /\ \A f \in 1..NewFills, n \in 1..Len(Strategies) :
                     LET call == calls'[Len(calls) + (f - 1) * Len(Strategies) + n]
                     IN  /\ call.hook = "on_fill"
                         /\ call.strategy = Strategies[n]
                         /\ call.n_fills = Len(fills) + f
              /\ history'[Len(history')].positions = positions'
       /\ ~LastStepEnds =>
              \A j \in NewRequests : requests'[j].order.id[1] # "CLOSE"
       /\ (pc = "dispatch" /\ NewFills = 1) =>
              /\ Len(calls') = Len(calls) + 2
              /\ calls'[Len(calls')].hook = "on_fill"
              /\ calls'[Len(calls')].strategy = Strategies[strat_i]]_allVars

\* The value of the positions at the given marks, a position without a mark
\* counted at its own average price.
RECURSIVE PositionsValue(_, _)
PositionsValue(ps, prices) ==
    IF ps = <<>> THEN Zero
    ELSE RAdd(RScale(Head(ps).size,
                     IF Head(ps).symbol \in DOMAIN prices
                     THEN prices[Head(ps).symbol] ELSE Head(ps).avg_price),
              PositionsValue(Tail(ps), prices))

\* C20: equity is cash plus the positions' value at the marks (average price
\* where a mark is missing), with no marks or the step's, and leaves the
\* ledger alone; each
\* snapshot's equity is that value for the snapshot's cash and positions at
\* the step's closes; a finished run's final snapshot has equity equal to its
\* cash.
C20_Equity ==
    /\ \A m \in 1..2 :
           LET prices == <<<<>>, market_prices>>[m]
           IN  /\ Portfolio_equity(Ledger, prices).result
                      = RAdd(cash, PositionsValue(positions, prices))
               /\ Portfolio_equity(Ledger, prices).pf = Ledger
    /\ \A i \in 1..Len(history) :
           history[i].equity
               = RAdd(history[i].cash,
                      PositionsValue(history[i].positions,
                                     StepCloses(i - 1, Len(Symbols))))
    /\ (pc = "done" /\ num_steps > 0) =>
           history[num_steps].equity = history[num_steps].cash

-----------------------------------------------------------------------------
(* Trade identity and time.                                                *)

\* The step the k-th logged trade was executed in, and a step's timestamp
\* (the first symbol's, as the snapshot of the step takes it).
FillStep(k) == RequestStep(PricedRequests[k])
StepTimestamp(idx) == data[Symbols[1]][idx + 1].timestamp
TradeTimes ==
    \A k \in 1..Min(Len(fills), Len(PricedRequests)) :
        fills[k].timestamp = StepTimestamp(FillStep(k))
TradeIdsDistinct ==
    \A j, k \in 1..Len(fills) : j # k => fills[j].fill_id # fills[k].fill_id

\* C21: every logged trade carries the timestamp of the step it was executed
\* in, and the trades of the log have pairwise distinct trade identifiers,
\* two trades of one symbol in one step included.
C21_TradeIdentityAndTime == TradeTimes /\ TradeIdsDistinct

-----------------------------------------------------------------------------
(* Net position and cost basis over a sequence of apply_fill calls.        *)

SizeOf(s) == get_position(positions, s).size
Clamped(x) == IF Abs(x) < EPS THEN 0 ELSE x

\* The latest apply_fill call left every other symbol's position as it was.
OthersUnchanged ==
    Applied =>
        \A s \in SymbolSet \ {Last.fill.symbol} :
            /\ HasPosition(positions, s) = HasPosition(Last.before.positions, s)
            /\ get_position(positions, s) = get_position(Last.before.positions, s)

RECURSIVE BookValue(_)
BookValue(ps) ==
    IF ps = <<>> THEN Zero
    ELSE RAdd(RScale(Head(ps).size, Head(ps).avg_price), BookValue(Tail(ps)))

RECURSIVE RealizedTotal(_)
RealizedTotal(ps) ==
    IF ps = <<>> THEN Zero ELSE RAdd(Head(ps).realized_pnl, RealizedTotal(Tail(ps)))

\* cash + sum of size * avg_price - sum of realized PnL.
CostBasis == RSub(RAdd(cash, BookValue(positions)), RealizedTotal(positions))
\* Portfolio.equity with no mark supplied: every position at its own avg_price.
EquityAtCost == equity(Ledger, <<>>)

\* C23 as stated: cash + sum of size * avg_price - sum of realized PnL is the
\* initial cash less the fees charged; marking every position at its own
\* avg_price, equity is the initial cash plus realized PnL less fees.
C23_Original ==
    pc = "ledger" =>
        /\ CostBasis = RSub(InitialCash, fees_paid)
        /\ EquityAtCost = RSub(RAdd(InitialCash, RealizedTotal(positions)), fees_paid)

\* C23: cash + sum of size * avg_price - sum of realized PnL is the initial
\* cash less the fees charged and less the value of the sizes the 1e-10
\* thresholds left out of the positions (a left-out remainder of a reducing
\* trade at the position's avg_price, a left-out trade or excess at the
\* trade's price); marking every position at its own avg_price, equity is
\* the initial cash plus realized PnL less the fees and that value.
C23_CostBasis ==
    pc = "ledger" =>
        /\ CostBasis = RSub(RSub(InitialCash, fees_paid), dust.value)
        /\ EquityAtCost = RSub(RSub(RAdd(InitialCash, RealizedTotal(positions)),
                                    fees_paid), dust.value)

\* C23 witness: fees were charged, PnL was realized, a threshold left some
\* value out, and a position is open.
C23_Witness ==
    /\ pc = "ledger"
    /\ fees_paid # Zero
    /\ dust.value # Zero
    /\ RealizedTotal(positions) # Zero
    /\ \E i \in 1..Len(positions) : positions[i].size # 0
    /\ CostBasis # RSub(InitialCash, fees_paid)

====
